---- MODULE Spec2Model ----
(***************************************************************************)
(* Model of the DBSCAN estimator of eda/model/model.py.                    *)
(*                                                                         *)
(* A point is one row of an N x 1 array, written as its integer            *)
(* coordinate.  fit is modelled statement by statement: one step per       *)
(* iteration of the scan loop (for p in X) and one step per iteration of   *)
(* the inner loop (for q in X[neighbors]).  predict and score are called   *)
(* between fits (the code is synchronous and single threaded).  With one    *)
(* column the order p of the metric does not change which rows are within  *)
(* eps, so instances are constructed with the default p.                   *)
(***************************************************************************)
EXTENDS Integers, Sequences, FiniteSets, TLC

\* ---- bounds of the model ------------------------------------------------
\* coordinates are 0..MaxCoord
MaxCoord == 2
\* rows passed to fit over the life of one instance, all fits together
MaxRows == 4
\* eps is 0..MaxEps, min_samples is 1..MaxMinSamples
MaxEps == 2
MaxMinSamples == 3

\* the default of the parameter p of __init__
DefaultP == 2

Coords == 0..MaxCoord
\* the arrays of 1..n rows
PointSets(n) == UNION {[1..m -> Coords] : m \in 1..n}
\* predict is called with an array of one row
Queries == [1..1 -> Coords]

\* ---- values that stand for Python objects --------------------------------
Unset == "unset"
NaN == "nan"
Score == "score"
NotFittedError == "NotFittedError"
KeyError == "KeyError"
\* the outcome of a call: the exception it raised, or the value it returned
Raise(e) == [exc |-> e, val |-> <<>>]
Return(v) == [exc |-> "", val |-> v]
NoCall == [exc |-> "none", val |-> <<>>]
NoQuery == <<>>

VARIABLES
    eps, min_samples, p,      \* self.eps, self.min_samples, self.p
    noise_label,              \* self.noise_label
    _labels,                  \* self._labels : dict  key -> label
    is_fit,                   \* self.is_fit
    n_clusters_,              \* self.n_clusters_ (Unset before the first fit)
    labels_,                  \* self.labels_     (Unset before the first fit)
    silhouette_,              \* self.silhouette_ (Unset before the first fit)
    X,                        \* the array passed to the fit in progress / last fit
    pc,                       \* position in fit: "idle", "scan", "expand"
    cluster,                  \* local of fit
    i,                        \* index of the scan loop, 1..Len(X)+1
    neighbors,                \* local mask (set of row indices) of fit
    new_neighbors,            \* local mask of fit
    j,                        \* last row index taken by "for q in X[neighbors]"
    fits,                     \* number of completed fit calls
    rows,                     \* number of rows passed to fit so far
    ret,                      \* outcome of the last predict/score call
    query,                    \* argument of the last predict call
    written,                  \* keys stored into _labels by the last step
    sameX,                    \* the fit in progress got the same X as the last one
    measured,                 \* keys whose eps-neighborhood the last step computed
    rounds,                   \* passes of the while loop completed for the current cluster
    labelled0                 \* number of keys in _labels when the current pass began

vars == <<eps, min_samples, p, noise_label, _labels, is_fit, n_clusters_,
          labels_, silhouette_, X, pc, cluster, i, neighbors, new_neighbors,
          j, fits, rows, ret, query, written, sameX, measured, rounds, labelled0>>

config == <<eps, min_samples, p, noise_label>>
locals == <<cluster, i, neighbors, new_neighbors, j>>
fitted == <<is_fit, n_clusters_, labels_, silhouette_>>

\* ---- helpers ---------------------------------------------------------------
Abs(n) == IF n < 0 THEN -n ELSE n

RECURSIVE Pow(_, _)
Pow(b, e) == IF e = 0 THEN 1 ELSE b * Pow(b, e - 1)

Max(S) == CHOOSE m \in S : \A n \in S : n <= m
Min(S) == CHOOSE m \in S : \A n \in S : m <= n

\* The hash of the bytes of a row.  CPython never returns -1 from hash():
\* a raw value of -1 is replaced by -2.
RawHash(c) == 31 * c + 7
_k(c) == IF RawHash(c) = -1 THEN -2 ELSE RawHash(c)

\* _metric(x1, x2, p) ** p : the sum over the single column of |(x1-x2)**p|
MetricPow(x1, x2, pp) == Abs(Pow(x1 - x2, pp))

\* _metric(x1, x2, p) < eps, for p >= 1, compared without the p-th root:
\* the distance is >= 0, so it is below eps only when eps > 0.
_metric_lt(x1, x2, pp, e) == e > 0 /\ MetricPow(x1, x2, pp) < Pow(e, pp)

\* The mask  self._metric(Xs, c, self.p) < self.eps  as a set of row indices
Mask(Xs, c, pp, e) == {n \in 1..Len(Xs) : _metric_lt(Xs[n], c, pp, e)}

\* self._labels[key] = label
Put(L, key, label) == [x \in (DOMAIN L) \cup {key} |-> IF x = key THEN label ELSE L[x]]

\* line 97: self._k(p) in self._labels, for the row p of the scan loop
AlreadyClassifiedUnlessRefit == _k(X[i]) \in DOMAIN _labels /\ ~is_fit
AlreadyClassifiedNever == FALSE
AlreadyClassified == _k(X[i]) \in DOMAIN _labels

\* line 116: self._k(q) not in self._labels or self._k(q) == -1
NeedsLabelAlways(L, c) == TRUE
NeedsLabel(L, c) == _k(c) \notin DOMAIN L \/ _k(c) = -1

\* line 104: X[neighbors].shape[0] >= self.min_samples
IsCoreMaskDistinct(nb, ms) == Cardinality({X[n] : n \in nb}) >= ms
IsCoreMask(nb, ms) == Cardinality(nb) >= ms

\* sklearn's silhouette_score raises ValueError unless the number of
\* distinct labels is in 2..N-1
LabelValues(ls) == {ls[n] : n \in 1..Len(ls)}
Silhouette(ls) ==
    IF Cardinality(LabelValues(ls)) >= 2 /\ Cardinality(LabelValues(ls)) <= Len(ls) - 1
    THEN Score ELSE NaN

\* lines 76-78: True when _check_fit returns, False when it raises
_check_fit_off(fitflag) == TRUE
_check_fit(fitflag) == fitflag

\* line 133: [self._labels[self._k(p)] for p in X]
LookupReversed(L, Q) ==
    IF \A n \in 1..Len(Q) : _k(Q[n]) \in DOMAIN L
    THEN Return([n \in 1..Len(Q) |-> L[_k(Q[Len(Q) + 1 - n])]])
    ELSE Raise(KeyError)
Lookup(L, Q) == IF \A n \in 1..Len(Q) : _k(Q[n]) \in DOMAIN L
                THEN Return([n \in 1..Len(Q) |-> L[_k(Q[n])]])
                ELSE Raise(KeyError)
\* lines 131-133
predict(L, fitflag, Q) == IF ~_check_fit(fitflag) THEN Raise(NotFittedError) ELSE Lookup(L, Q)
\* lines 135-137
score(fitflag, s) == IF ~_check_fit(fitflag) THEN Raise(NotFittedError) ELSE Return(s)

\* ---- fit as a function of the dict it starts from and of X ------------------
\* lines 115-118: the inner loop over X[nb], from the row after jj
RECURSIVE InnerLoop(_, _, _, _, _, _)
InnerLoop(L, c, Xs, nb, jj, nn) ==
    LET pend == {n \in nb : n > jj} IN
    IF pend = {} THEN [L |-> L, nn |-> nn]
    ELSE LET q == Min(pend) IN
         IF NeedsLabel(L, Xs[q])
         THEN InnerLoop(Put(L, _k(Xs[q]), c), c, Xs, nb, q,
                        nn \cup Mask(Xs, Xs[q], p, eps))
         ELSE InnerLoop(L, c, Xs, nb, q, nn)

\* lines 111-121: the while loop
RECURSIVE WhileLoop(_, _, _, _)
WhileLoop(L, c, Xs, nb) ==
    IF nb = {} THEN L
    ELSE LET r == InnerLoop(L, c, Xs, nb, 0, {}) IN WhileLoop(r.L, c, Xs, r.nn)

\* lines 94-121: the scan loop, from row idx
RECURSIVE ScanLoop(_, _, _, _)
ScanLoop(L, c, Xs, idx) ==
    IF idx > Len(Xs) THEN [L |-> L, c |-> c]
    ELSE IF _k(Xs[idx]) \in DOMAIN L THEN ScanLoop(L, c, Xs, idx + 1)
    ELSE LET nb == Mask(Xs, Xs[idx], p, eps) IN
         IF IsCoreMask(nb, min_samples)
         THEN ScanLoop(WhileLoop(Put(L, _k(Xs[idx]), c + 1), c + 1, Xs, nb),
                       c + 1, Xs, idx + 1)
         ELSE ScanLoop(Put(L, _k(Xs[idx]), noise_label), c, Xs, idx + 1)

\* lines 90-129: what fit leaves on an instance whose dict was L0
fit(L0, Xs) ==
    LET r == ScanLoop(L0, -1, Xs, 1) IN
    [_labels |-> r.L, n_clusters_ |-> r.c + 1, labels_ |-> Lookup(r.L, Xs).val]

\* fit on an instance just constructed (line 73: self._labels = dict())
FreshFit(Xs) == fit(<<>>, Xs)

\* ---- the earlier revision of the engine (src/model/model.py) ----------------
\* line 122: new_neighbors &= ~all_neighbors
PruneAliased(nn, all) == nn \ (all \cup nn)
Prune(nn, all) == nn \ all

\* lines 116-119: the inner loop over the rows X[new_neighbors] held when the
\* loop starts (nb), from the row after jj; nn is the mask new_neighbors, which
\* the loop widens in place
RECURSIVE InnerLoopOld(_, _, _, _, _, _)
InnerLoopOld(L, c, Xs, nb, jj, nn) ==
    LET pend == {n \in nb : n > jj} IN
    IF pend = {} THEN [L |-> L, nn |-> nn]
    ELSE LET q == Min(pend) IN
         IF NeedsLabel(L, Xs[q])
         THEN InnerLoopOld(Put(L, _k(Xs[q]), c), c, Xs, nb, q,
                           nn \cup Mask(Xs, Xs[q], p, eps))
         ELSE InnerLoopOld(L, c, Xs, nb, q, nn)

\* lines 110-122: the while loop; line 113 adds the frontier to all_neighbors
RECURSIVE WhileLoopOld(_, _, _, _, _)
WhileLoopOld(L, c, Xs, all, nn) ==
    IF nn = {} THEN L
    ELSE LET all2 == all \cup nn
             r == InnerLoopOld(L, c, Xs, nn, 0, nn)
         IN WhileLoopOld(r.L, c, Xs, all2, Prune(r.nn, all2))

\* lines 92-122: the scan loop, from row idx; lines 99-100 start both masks
\* from the neighbors of the row
RECURSIVE ScanLoopOld(_, _, _, _)
ScanLoopOld(L, c, Xs, idx) ==
    IF idx > Len(Xs) THEN [L |-> L, c |-> c]
    ELSE IF _k(Xs[idx]) \in DOMAIN L THEN ScanLoopOld(L, c, Xs, idx + 1)
    ELSE LET nb == Mask(Xs, Xs[idx], p, eps) IN
         IF IsCoreMask(nb, min_samples)
         THEN ScanLoopOld(WhileLoopOld(Put(L, _k(Xs[idx]), c + 1), c + 1, Xs, nb, nb),
                          c + 1, Xs, idx + 1)
         ELSE ScanLoopOld(Put(L, _k(Xs[idx]), noise_label), c, Xs, idx + 1)

\* lines 88-126: what the earlier fit leaves on an instance whose dict was L0
fit_old(L0, Xs) ==
    LET r == ScanLoopOld(L0, -1, Xs, 1) IN
    [_labels |-> r.L, n_clusters_ |-> r.c + 1, labels_ |-> Lookup(r.L, Xs).val]

\* the earlier fit on an instance just constructed
FreshFitOld(Xs) == fit_old(<<>>, Xs)

\* ---- the instance after construction ---------------------------------------
Init ==
    /\ eps \in 0..MaxEps
    /\ min_samples \in 1..MaxMinSamples
    /\ p = DefaultP
    /\ noise_label = -1
    /\ _labels = <<>>
    /\ is_fit = FALSE
    /\ n_clusters_ = Unset
    /\ labels_ = Unset
    /\ silhouette_ = Unset
    /\ X = <<>>
    /\ pc = "idle"
    /\ cluster = -1
    /\ i = 1
    /\ neighbors = {}
    /\ new_neighbors = {}
    /\ j = 0
    /\ fits = 0
    /\ rows = 0
    /\ ret = NoCall
    /\ query = NoQuery
    /\ written = {}
    /\ sameX = FALSE
    /\ measured = {}
    /\ rounds = 0
    /\ labelled0 = 0

\* ---- fit -------------------------------------------------------------------
\* lines 90-92: entry of fit
FitStart ==
    /\ pc = "idle"
    /\ rows < MaxRows
    /\ \E Xs \in PointSets(MaxRows - rows) :
          /\ X' = Xs
          /\ rows' = rows + Len(Xs)
          /\ sameX' = (fits >= 1 /\ Xs = X)
    /\ cluster' = -1
    /\ i' = 1
    /\ neighbors' = {}
    /\ new_neighbors' = {}
    /\ j' = 0
    /\ pc' = "scan"
    /\ ret' = NoCall
    /\ query' = NoQuery
    /\ written' = {}
    /\ measured' = {}
    /\ rounds' = 0
    /\ labelled0' = 0
    /\ UNCHANGED <<config, _labels, fitted, fits>>

\* lines 94-98: the row is already a key of _labels
ScanSkip ==
    /\ pc = "scan"
    /\ i <= Len(X)
    /\ AlreadyClassified
    /\ i' = i + 1
    /\ written' = {}
    /\ measured' = {}
    /\ UNCHANGED <<config, _labels, fitted, X, pc, cluster, neighbors,
                   new_neighbors, j, fits, rows, ret, query, sameX, rounds, labelled0>>

\* lines 101, 104, 107-109: too few neighbors, the row goes to the noise cluster
ScanNoise ==
    /\ pc = "scan"
    /\ i <= Len(X)
    /\ ~AlreadyClassified
    /\ ~IsCoreMask(Mask(X, X[i], p, eps), min_samples)
    /\ neighbors' = Mask(X, X[i], p, eps)
    /\ _labels' = Put(_labels, _k(X[i]), noise_label)
    /\ written' = {_k(X[i])}
    /\ i' = i + 1
    /\ measured' = {_k(X[i])}
    /\ UNCHANGED <<config, fitted, X, pc, cluster, new_neighbors, j, fits,
                   rows, ret, query, sameX, rounds, labelled0>>

\* lines 101, 104-106, 111-112: the row seeds the next cluster
ScanCore ==
    /\ pc = "scan"
    /\ i <= Len(X)
    /\ ~AlreadyClassified
    /\ IsCoreMask(Mask(X, X[i], p, eps), min_samples)
    /\ neighbors' = Mask(X, X[i], p, eps)
    /\ cluster' = cluster + 1
    /\ _labels' = Put(_labels, _k(X[i]), cluster + 1)
    /\ written' = {_k(X[i])}
    /\ new_neighbors' = {}
    /\ j' = 0
    /\ IF Mask(X, X[i], p, eps) # {}
       THEN pc' = "expand" /\ i' = i
       ELSE pc' = "scan" /\ i' = i + 1
    /\ measured' = {_k(X[i])}
    /\ rounds' = 0
    /\ labelled0' = Cardinality(DOMAIN _labels')
    /\ UNCHANGED <<config, fitted, X, fits, rows, ret, query, sameX>>

\* the rows of X[neighbors] not yet taken by the inner loop
Pending == {n \in neighbors : n > j}

\* lines 115-118, condition true: q joins the cluster and its neighbors
\* join the next frontier
ExpandAssign ==
    /\ pc = "expand"
    /\ Pending # {}
    /\ LET q == Min(Pending) IN
          /\ NeedsLabel(_labels, X[q])
          /\ _labels' = Put(_labels, _k(X[q]), cluster)
          /\ written' = {_k(X[q])}
          /\ new_neighbors' = new_neighbors \cup Mask(X, X[q], p, eps)
          /\ j' = q
    /\ measured' = {_k(X[Min(Pending)])}
    /\ UNCHANGED <<config, fitted, X, pc, cluster, i, neighbors, fits, rows, ret, query, sameX, rounds, labelled0>>

\* lines 115-116, condition false: q keeps its label
ExpandSkip ==
    /\ pc = "expand"
    /\ Pending # {}
    /\ LET q == Min(Pending) IN
          /\ ~NeedsLabel(_labels, X[q])
          /\ j' = q
    /\ written' = {}
    /\ measured' = {}
    /\ UNCHANGED <<config, _labels, fitted, X, pc, cluster, i, neighbors,
                   new_neighbors, fits, rows, ret, query, sameX, rounds, labelled0>>

\* lines 121, 111-112: the inner loop is over; the next frontier replaces
\* the current one and the while condition is tested again
ExpandRound ==
    /\ pc = "expand"
    /\ Pending = {}
    /\ neighbors' = new_neighbors
    /\ new_neighbors' = {}
    /\ j' = 0
    /\ IF new_neighbors # {}
       THEN pc' = "expand" /\ i' = i
       ELSE pc' = "scan" /\ i' = i + 1
    /\ written' = {}
    /\ measured' = {}
    /\ rounds' = IF rounds <= MaxRows + 1 THEN rounds + 1 ELSE rounds
    /\ labelled0' = Cardinality(DOMAIN _labels)
    /\ UNCHANGED <<config, _labels, fitted, X, cluster, fits, rows, ret, query, sameX>>

\* lines 123-129: the scan is over
FitFinish ==
    /\ pc = "scan"
    /\ i > Len(X)
    /\ is_fit' = TRUE
    /\ n_clusters_' = cluster + 1
    /\ labels_' = predict(_labels, TRUE, X).val
    /\ silhouette_' = Silhouette(predict(_labels, TRUE, X).val)
    /\ fits' = fits + 1
    /\ pc' = "idle"
    /\ cluster' = -1
    /\ i' = 1
    /\ neighbors' = {}
    /\ new_neighbors' = {}
    /\ j' = 0
    /\ written' = {}
    /\ measured' = {}
    /\ rounds' = 0
    /\ labelled0' = 0
    /\ UNCHANGED <<config, _labels, X, rows, ret, query, sameX>>

\* ---- predict and score -----------------------------------------------------
\* lines 131-133
Predict ==
    /\ pc = "idle"
    /\ \E Q \in Queries :
          /\ query' = Q
          /\ ret' = predict(_labels, is_fit, Q)
    /\ written' = {}
    /\ measured' = {}
    /\ UNCHANGED <<config, _labels, fitted, X, pc, locals, fits, rows, sameX, rounds, labelled0>>

\* lines 135-137
ScoreCall ==
    /\ pc = "idle"
    /\ ret' = score(is_fit, silhouette_)
    /\ query' = NoQuery
    /\ written' = {}
    /\ measured' = {}
    /\ UNCHANGED <<config, _labels, fitted, X, pc, locals, fits, rows, sameX, rounds, labelled0>>

Next ==
    \/ FitStart
    \/ ScanSkip
    \/ ScanNoise
    \/ ScanCore
    \/ ExpandAssign
    \/ ExpandSkip
    \/ ExpandRound
    \/ FitFinish
    \/ Predict
    \/ ScoreCall

Spec == Init /\ [][Next]_vars

\* fit is a synchronous call: once entered, its next statement is executed
FitStep ==
    \/ ScanSkip
    \/ ScanNoise
    \/ ScanCore
    \/ ExpandAssign
    \/ ExpandSkip
    \/ ExpandRound
    \/ FitFinish
\* the calls of fit alone, each run to its end
FitNext == FitStart \/ FitStep
FairSpec == Init /\ [][FitNext]_vars /\ WF_vars(FitStep)

\* ---- notions the properties are stated with ----------------------------------
Rows == 1..Len(X)
\* the configuration is one the documentation of the class allows
ValidConfig == eps > 0 /\ min_samples >= 1 /\ p >= 1
Fitted == pc = "idle" /\ fits >= 1
FirstFitted == pc = "idle" /\ fits = 1
NeighborsOfRow(a) == Mask(X, X[a], p, eps)
CorePoint(a) == Cardinality(NeighborsOfRow(a)) >= min_samples
IsClusterId(l) == l \in Nat
AtFitFinish == pc = "scan" /\ i > Len(X)
\* the row the inner loop takes next, when there is one
NextQ == Min(Pending)

\* two label arrays over the same rows describe the same groups and noise set
SamePartition(a, b) ==
    /\ Len(a) = Len(b)
    /\ \A m, n \in 1..Len(a) :
          /\ (a[m] = a[n]) <=> (b[m] = b[n])
          /\ (a[m] = -1) <=> (b[m] = -1)

\* two dicts over the same keys describe the same groups and noise set
SamePartitionByKey(L1, L2) ==
    /\ DOMAIN L1 = DOMAIN L2
    /\ \A a, b \in DOMAIN L1 :
          /\ (L1[a] = L1[b]) <=> (L2[a] = L2[b])
          /\ (L1[a] = -1) <=> (L2[a] = -1)

Permuted(Xs) == {[n \in 1..Len(Xs) |-> Xs[f[n]]] : f \in Permutations(1..Len(Xs))}

TypeOK ==
    /\ pc \in {"idle", "scan", "expand"}
    /\ is_fit \in BOOLEAN
    /\ fits \in 0..MaxRows
    /\ rows \in 0..MaxRows
    /\ \A key \in DOMAIN _labels : _labels[key] \in -1..MaxRows

\* The first fit of an instance, run step by step, ends where the function
\* fit ends.
FirstFitAgrees ==
    FirstFitted =>
        /\ _labels = FreshFit(X)._labels
        /\ n_clusters_ = FreshFit(X).n_clusters_
        /\ labels_ = FreshFit(X).labels_

\* ---- C1 ---------------------------------------------------------------------
\* C1: after every fit that completes, the first or a later one, every row
\* of X holds exactly one label, which is Noise (-1) or a cluster id k with
\* 0 <= k < n_clusters_.
C1_EveryRowLabelled ==
    (ValidConfig /\ Fitted) =>
        \A n \in Rows :
            /\ _k(X[n]) \in DOMAIN _labels
            /\ labels_[n] = _labels[_k(X[n])]
            /\ \/ labels_[n] = noise_label
               \/ (labels_[n] >= 0 /\ labels_[n] < n_clusters_)

\* ---- C2 ---------------------------------------------------------------------
\* C2: after fit, when row a is a core point and row b is at distance < eps
\* of it, b holds the cluster id of a and is not Noise.  Stated of the first
\* fit of an instance, which starts from an empty dict.
C2_ReachabilityClosure ==
    (ValidConfig /\ FirstFitted) =>
        \A a, b \in Rows :
            (CorePoint(a) /\ b \in NeighborsOfRow(a)) =>
                (labels_[b] = labels_[a] /\ labels_[b] # noise_label)

\* ---- C3 ---------------------------------------------------------------------
\* C3: the partition that fit leaves on a fresh instance is the same for
\* every permutation of the rows of X.
C3_PermutationInvariant ==
    (ValidConfig /\ FirstFitted) =>
        \A Y \in Permuted(X) : SamePartitionByKey(_labels, FreshFit(Y)._labels)

\* ---- C4 ---------------------------------------------------------------------
\* C4: when the inner loop of the expansion of cluster k takes a row whose
\* label is Noise, the row is relabelled k.
C4_NoiseReclaimed ==
    [][(ValidConfig /\ pc = "expand" /\ Pending # {}
          /\ _k(X[NextQ]) \in DOMAIN _labels
          /\ _labels[_k(X[NextQ])] = noise_label)
       => _labels'[_k(X[NextQ])] = cluster]_vars

\* ---- C5 ---------------------------------------------------------------------
\* C5: after fit, a row labelled Noise has fewer than min_samples rows in
\* its eps-neighborhood and no core point within eps of it.  Stated of the
\* first fit of an instance, which starts from an empty dict.
C5_NoiseIsolated ==
    (ValidConfig /\ FirstFitted) =>
        \A b \in Rows :
            labels_[b] = noise_label =>
                /\ ~CorePoint(b)
                /\ ~\E a \in Rows : CorePoint(a) /\ b \in NeighborsOfRow(a)

\* ---- C6 ---------------------------------------------------------------------
\* C6: a label only goes from absent to Noise, from absent to a cluster id,
\* or from Noise to a cluster id; a key that holds a cluster id keeps it and
\* is not stored again, whichever frontier reaches it.
C6_LabelsMonotone ==
    [][\A key \in DOMAIN _labels :
          /\ key \in DOMAIN _labels'
          /\ IsClusterId(_labels[key]) =>
                (_labels'[key] = _labels[key] /\ key \notin written')
          /\ _labels[key] = noise_label =>
                (_labels'[key] = noise_label \/ IsClusterId(_labels'[key]))]_vars

\* the inner loop has just passed a row that holds the id of another cluster
C6_Witness ==
    /\ pc = "expand"
    /\ j \in Rows
    /\ IsClusterId(_labels[_k(X[j])])
    /\ _labels[_k(X[j])] # cluster

\* ---- C7 ---------------------------------------------------------------------
\* C7: after any fit, the dict, labels_ and n_clusters_ are those that fit
\* leaves on a fresh instance given the same X.
C7_RefitIsFresh ==
    (ValidConfig /\ Fitted) =>
        /\ _labels = FreshFit(X)._labels
        /\ labels_ = FreshFit(X).labels_
        /\ n_clusters_ = FreshFit(X).n_clusters_

\* ---- C8 ---------------------------------------------------------------------
\* C8: a fit given the X of the fit before it leaves the partition
\* (groups and noise set) that the fit before it left.
C8_Idempotent ==
    [][(AtFitFinish /\ sameX) => SamePartition(labels_, labels_')]_vars

\* a second fit of the same rows has completed, with a cluster of two rows
C8_Witness ==
    /\ pc = "idle"
    /\ fits >= 2
    /\ sameX
    /\ \E m, n \in Rows : m # n /\ IsClusterId(labels_[m]) /\ labels_[m] = labels_[n]

\* ---- C9 ---------------------------------------------------------------------
\* C9: is_fit is False until a fit completes and only the end of fit sets
\* it; before that, predict and score end with NotFittedError and change
\* neither is_fit nor the dict.
C9_NotFitted ==
    /\ [](fits = 0 => is_fit = FALSE)
    /\ [][/\ (is_fit' # is_fit) => (AtFitFinish /\ is_fit' = TRUE)
          /\ (pc = "idle" /\ pc' = "idle" /\ fits = 0) =>
                /\ ret'.exc = NotFittedError
                /\ is_fit' = is_fit
                /\ _labels' = _labels]_vars

\* predict was called before any fit and raised
C9_Witness ==
    /\ fits = 0
    /\ pc = "idle"
    /\ query # NoQuery
    /\ ret.exc = NotFittedError

\* ---- C10 --------------------------------------------------------------------
\* C10: on a fitted instance, predict fails for a query with a row that is
\* no row of the X of the most recent fit.
C10_UnknownPointFails ==
    (ValidConfig /\ Fitted /\ query # NoQuery
        /\ \E n \in 1..Len(query) : \A m \in Rows : query[n] # X[m])
    => ret.exc = KeyError
\* ---- C11 --------------------------------------------------------------------
\* C11: fit with eps <= 0, min_samples < 1 or p < 1 fails before any
\* computation: on an instance with such a configuration no label is ever
\* stored and is_fit stays False.
C11_InvalidConfigRejected ==
    ~ValidConfig => (_labels = <<>> /\ is_fit = FALSE)

\* ---- C12 --------------------------------------------------------------------
\* the cluster ids (Noise left out) among the labels of the rows of the last fit
ClusterIdsHeld == LabelValues(labels_) \ {noise_label}

\* C12: when fit ends with fewer than 2 distinct clusters, Noise not counting
\* as a cluster, silhouette_ is NaN and score() returns it.
C12_DegenerateScoreIsNaN ==
    (ValidConfig /\ Fitted /\ Cardinality(ClusterIdsHeld) < 2) =>
        /\ silhouette_ = NaN
        /\ score(is_fit, silhouette_) = Return(NaN)

\* ---- C14 --------------------------------------------------------------------
\* C14: after fit, n_clusters_ is the number of distinct cluster ids held by
\* the rows of X: every id in 0..n_clusters_-1 is held by a row and no row
\* holds an id >= n_clusters_.
C14_ClusterCountMatches ==
    (ValidConfig /\ Fitted) =>
        /\ n_clusters_ = Cardinality(ClusterIdsHeld)
        /\ ClusterIdsHeld = 0..(n_clusters_ - 1)
\* ---- C13 --------------------------------------------------------------------
\* the rows of X with the coordinates of row n of the last query
Matches(n) == {m \in Rows : X[m] = query[n]}

\* C13: predict returns one label per query row, in query order, each the
\* label of the fitted rows with the same coordinates; labels_ is predict(X),
\* one label per row of X in the order of X.
C13_OneLabelPerRow ==
    Fitted =>
        /\ Len(labels_) = Len(X)
        /\ \A m \in Rows : labels_[m] = _labels[_k(X[m])]
        /\ (query # NoQuery /\ \A n \in 1..Len(query) : Matches(n) # {}) =>
              /\ ret.exc = ""
              /\ Len(ret.val) = Len(query)
              /\ \A n \in 1..Len(query) : \A m \in Matches(n) :
                    ret.val[n] = labels_[m]

\* fit returned labels for an X with two equal rows and two different
\* labels, and predict then returned for a row of X
C13_Witness ==
    /\ Fitted
    /\ \E m, n \in Rows : m # n /\ X[m] = X[n]
    /\ \E m, n \in Rows : labels_[m] # labels_[n]
    /\ query # NoQuery
    /\ Matches(1) # {}
    /\ ret.exc = ""

\* ---- C15 --------------------------------------------------------------------
\* C15: rows of X with equal coordinates end with the same label, and a row
\* the scan finds unlabelled seeds a cluster exactly when the rows within
\* eps of it, equal rows counted one by one, are at least min_samples.
C15_DuplicatesConsistent ==
    /\ [](Fitted => \A m, n \in Rows : X[m] = X[n] => labels_[m] = labels_[n])
    /\ [][(pc = "scan" /\ i <= Len(X) /\ _k(X[i]) \notin DOMAIN _labels) =>
            IF CorePoint(i)
            THEN cluster' = cluster + 1 /\ _labels'[_k(X[i])] = cluster + 1
            ELSE cluster' = cluster /\ _labels'[_k(X[i])] = noise_label]_vars

\* a row that is a core point only because equal rows are counted one by
\* one holds a cluster id, and so does the row equal to it
C15_Witness ==
    /\ Fitted
    /\ \E m, n \in Rows :
          /\ m # n
          /\ X[m] = X[n]
          /\ CorePoint(m)
          /\ Cardinality({X[a] : a \in NeighborsOfRow(m)}) < min_samples
          /\ IsClusterId(labels_[m])
          /\ labels_[n] = labels_[m]

\* ---- C16 --------------------------------------------------------------------
\* C16: the neighbors of a row q taken by the inner loop join the next
\* frontier only if q is a core point: a step on a row that is not a core
\* point leaves new_neighbors as it was.
C16_ExpansionThroughCoreOnly ==
    [][(ValidConfig /\ pc = "expand" /\ Pending # {} /\ ~CorePoint(NextQ))
       => new_neighbors' = new_neighbors]_vars

\* ---- C17 --------------------------------------------------------------------
\* C17: a fit that has started ends with is_fit = True; a pass of the while
\* loop that leaves a next frontier has labelled a row that had no label,
\* and the expansion of one cluster takes at most N + 1 passes.
C17_FitTerminates ==
    /\ (pc # "idle") ~> (pc = "idle" /\ is_fit)
    /\ [](rounds <= Len(X) + 1)
    /\ []((pc = "expand" /\ Pending = {} /\ new_neighbors # {})
            => Cardinality(DOMAIN _labels) > labelled0)

\* a cluster is in its third pass of the while loop
C17_Witness ==
    /\ pc = "expand"
    /\ rounds >= 2
    /\ labelled0 >= 3

\* ---- C18 --------------------------------------------------------------------
\* C18: the eps-neighborhood of a row is computed only by the step that
\* stores its first label (the scan finding it unlabelled, or the expansion
\* labelling it), and a key never leaves the dict: no neighborhood is
\* computed for a row that already holds a label, so none is computed twice.
C18_NeighborhoodOnce ==
    [][/\ DOMAIN _labels \subseteq DOMAIN _labels'
       /\ \A key \in measured' :
             key \notin DOMAIN _labels /\ key \in DOMAIN _labels']_vars

\* in a later pass of the while loop a labelled row was taken again and no
\* neighborhood was computed for it
C18_Witness ==
    /\ pc = "expand"
    /\ rounds >= 1
    /\ j \in Rows
    /\ _k(X[j]) \in DOMAIN _labels
    /\ measured = {}

\* ---- C19 --------------------------------------------------------------------
\* C19: on a fresh instance the earlier revision of fit (src/model/model.py)
\* and the present one leave the same dict of labels, the same labels_ and
\* the same n_clusters_, for every point set and configuration.
C19_RevisionsAgree ==
    FirstFitted =>
        /\ FreshFitOld(X)._labels = _labels
        /\ FreshFitOld(X).labels_ = labels_
        /\ FreshFitOld(X).n_clusters_ = n_clusters_

\* a cluster grown over more than one pass: a member lies outside the
\* neighborhood of the core row that opened the cluster, so the second
\* frontier was pruned in the earlier revision and replaced in the present one
C19_Witness ==
    /\ FirstFitted
    /\ \E m, n \in Rows :
          /\ CorePoint(m)
          /\ \A a \in 1..(m - 1) : labels_[a] # labels_[m]
          /\ IsClusterId(labels_[m])
          /\ labels_[n] = labels_[m]
          /\ n \notin NeighborsOfRow(m)
          /\ NeighborsOfRow(n) \cap NeighborsOfRow(m) # {}
====
